---- MODULE Spec2Model ----
(***************************************************************************)
(* Executive (srml/executive/src/lib.rs): block execution and extrinsic    *)
(* application over the chain state kept by the system module.             *)
(*                                                                         *)
(* The executive owns no state.  Every function of lib.rs is an operator   *)
(* from a machine record m = [chain, trace, panic] to a machine record:    *)
(*   chain  the storage the collaborators keep (system, balances),         *)
(*   trace  the collaborator calls made so far by the running entry point, *)
(*   panic  "" or the message of the assert!/panic! that aborted the call. *)
(* A panicked machine takes no further step of the code.                   *)
(***************************************************************************)
EXTENDS Integers, Sequences, FiniteSets, TLC

\* ---------------------------------------------------------------- bounds
\* Extrinsic indices (declared nonces) range over 0..MaxIndex.
MaxIndex == 1
\* Entry-point calls per behaviour.
MaxCalls == 2
\* Header numbers offered to initialise_block and execute_block.
BlockNumbers == 0..1

\* ------------------------------------------------------------- constants
\* balances genesis of the tests: balances: vec![(1, 111)]
InitialBalance == 111
\* Call::transfer(2.into(), 69)
TransferValue == 69
\* transaction_base_fee / transaction_byte_fee of the balances genesis
TransactionBaseFee == 10
TransactionByteFee == 1

Accounts == {1, 2}
\* An address the resolver cannot map to an account.
UnknownAddress == 3
Addresses == Accounts \cup {UnknownAddress}
\* Option::None for a sender or a signature
None == 0
\* system::extrinsic_index() == None outside a block
NoIndex == -1

\* H256 values: the default hash and the genesis block's hash ([69u8; 32]).
ZeroHash == 0
GenesisHash == 69
Hashes == {ZeroHash, GenesisHash}

Functions == {"noop", "transfer"}

Range(s) == {s[i] : i \in 1..Len(s)}

\* ------------------------------------------------------------ extrinsics
\* RawExtrinsic: (signature: Option<Address>, index, function).
SignedExtrinsics ==
    [signed : Addresses, index : 0..MaxIndex, function : Functions]
UnsignedExtrinsics ==
    [signed : {None}, index : {0}, function : Functions]
Extrinsics == SignedExtrinsics \cup UnsignedExtrinsics

FunctionCode(f) == IF f = "noop" THEN <<0>> ELSE <<1, TransferValue>>

\* Encode::encode of an extrinsic: the option tag, the address when signed,
\* the index, the call.
Encode(uxt) ==
    (IF uxt.signed = None THEN <<0>> ELSE <<1, uxt.signed>>)
        \o <<uxt.index>> \o FunctionCode(uxt.function)

\* system::extrinsics_root over the encoded extrinsics, in order.  The root
\* is a commitment: two roots are equal iff the encoded sequences are.
EncodeAll(xts) == [i \in 1..Len(xts) |-> Encode(xts[i])]
extrinsics_root(xts) == EncodeAll(xts)


\* ------------------------------------------------------------ chain state
VARIABLES
    chain,          \* the storage: system and balances modules
    trace,          \* collaborator calls made by the running / last entry point
    pc,             \* position of the in-flight execute_block, or "idle" / "rejected"
    block,          \* the block execute_block is working on
    next,           \* position in block.extrinsics of the next one to apply
    call,           \* the last entry-point call or execute_block step, with its input
    pre,            \* the storage as it was before that call or step
    result,         \* what that call or step returned
    entry,          \* the storage as it was when the running execute_block was called
    mark,           \* length of the trace when that call or step began
    ledger,         \* per account: fees debited and nonce increments so far;
                    \* and the extrinsics with a sender admitted so far, in order
    calls,          \* number of entry-point calls made so far
    recordsParent   \* whether system::initialise stores parent_hash as block_hash(n-1)

vars == <<chain, trace, pc, block, next, call, pre, result, entry, mark, ledger, calls, recordsParent>>

\* The storage at genesis.
GenesisChain(balances) ==
    [ number         |-> 0,
      parentHash     |-> ZeroHash,
      extrinsicsRoot |-> <<>>,
      blockHash      |-> [n \in BlockNumbers |-> IF n = 0 THEN GenesisHash ELSE ZeroHash],
      nonce          |-> [a \in Accounts |-> 0],
      balance        |-> balances,
      extrinsicIndex |-> NoIndex,
      extrinsics     |-> <<>>,
      applied        |-> <<>>,
      finished       |-> FALSE ]

Machine(c) == [chain |-> c, trace |-> <<>>, panic |-> ""]

\* One collaborator call, appended to the trace.
Ev(m, op, arg) == [m EXCEPT !.trace = Append(@, [op |-> op, arg |-> arg])]

Panic(m, msg) == [m EXCEPT !.panic = msg]

\* ---------------------------------------------------- system module (4.3)
system_initialise(m, number, parent_hash, txs_root) ==
    LET c == m.chain
        hashes == IF recordsParent /\ number > 0
                  THEN [c.blockHash EXCEPT ![number - 1] = parent_hash]
                  ELSE c.blockHash
    IN  Ev([m EXCEPT !.chain = [c EXCEPT !.number = number,
                                         !.parentHash = parent_hash,
                                         !.extrinsicsRoot = txs_root,
                                         !.blockHash = hashes,
                                         !.extrinsicIndex = 0,
                                         !.extrinsics = <<>>,
                                         !.applied = <<>>,
                                         !.finished = FALSE]],
           "initialise", number)

block_hash(m, n) == IF n \in DOMAIN m.chain.blockHash THEN m.chain.blockHash[n] ELSE ZeroHash

block_number(m) == m.chain.number

account_nonce(m, who) == m.chain.nonce[who]

inc_account_nonce(m, who) ==
    Ev([m EXCEPT !.chain.nonce[who] = @ + 1], "inc_account_nonce", who)

note_extrinsic(m, encoded) ==
    Ev([m EXCEPT !.chain.extrinsics = Append(@, encoded)], "note_extrinsic", Len(encoded))

\* The dispatch result r is Ok or Err(reason); the log keeps which.
note_applied_extrinsic(m, r) ==
    Ev([m EXCEPT !.chain.applied = Append(@, IF r.ok THEN "ExtrinsicSuccess" ELSE "ExtrinsicFailed"),
                 !.chain.extrinsicIndex = IF @ = NoIndex THEN 1 ELSE @ + 1],
       "note_applied_extrinsic", IF r.ok THEN 1 ELSE 0)

note_finished_extrinsics(m) ==
    Ev([m EXCEPT !.chain.finished = TRUE], "note_finished_extrinsics", Len(m.chain.applied))

\* The digest accumulated for the block: built from the applied-extrinsic log.
digest(m) == m.chain.applied

derive_extrinsics(m) ==
    Ev([m EXCEPT !.chain.extrinsicsRoot = m.chain.extrinsics], "derive_extrinsics", Len(m.chain.extrinsics))

\* Hashing::storage_root(): a commitment to the whole storage.
storage_root(m) == m.chain

\* system::finalise removes the per-block temporaries; the header it returns
\* is synthesized by FinalisedHeader from the storage it leaves and the
\* values it removed.
system_finalise(m) ==
    Ev([m EXCEPT !.chain = [m.chain EXCEPT !.parentHash = ZeroHash,
                                           !.extrinsicsRoot = <<>>,
                                           !.extrinsicIndex = NoIndex,
                                           !.extrinsics = <<>>,
                                           !.applied = <<>>,
                                           !.finished = FALSE]],
       "finalise", m.chain.number)

FinalisedHeader(m) ==
    [ number          |-> m.chain.number,
      parent_hash     |-> m.chain.parentHash,
      extrinsics_root |-> m.chain.extrinsicsRoot,
      state_root      |-> storage_root(system_finalise(m)),
      digest          |-> digest(m) ]

\* ------------------------------------------- resolver, payment, dispatcher
\* Lookup::lookup(source) -> Result<account, reason>; pure.
Lookup(source) ==
    IF source \in Accounts THEN [ok |-> TRUE, v |-> source, msg |-> ""]
    ELSE [ok |-> FALSE, v |-> None, msg |-> "invalid account"]

\* Checkable::check_with(lookup): an unsigned extrinsic has no sender; a
\* signed one has the account its address resolves to.
check_with(uxt) ==
    IF uxt.signed = None
    THEN [ok |-> TRUE, xt |-> [sender |-> None, index |-> uxt.index, function |-> uxt.function], msg |-> ""]
    ELSE LET l == Lookup(uxt.signed)
         IN  [ok |-> l.ok, xt |-> [sender |-> l.v, index |-> uxt.index, function |-> uxt.function], msg |-> l.msg]

TransactionFee(encoded_len) == TransactionBaseFee + TransactionByteFee * encoded_len

\* MakePayment::make_payment(who, encoded_len): debits the fee or fails
\* leaving the balance alone.
make_payment(m, who, encoded_len) ==
    LET fee == TransactionFee(encoded_len)
        m1 == Ev(m, "make_payment", who)
    IN  IF m.chain.balance[who] < fee
        THEN [m |-> m1, ok |-> FALSE]
        ELSE [m |-> Ev([m1 EXCEPT !.chain.balance[who] = @ - fee], "debit", who), ok |-> TRUE]

OtherAccount(who) == CHOOSE a \in Accounts : a # who

\* Dispatchable::dispatch(origin): "noop" succeeds under any origin;
\* "transfer" needs a signed origin with TransferValue to spare.
dispatch(m, function, origin) ==
    LET m1 == Ev(m, "dispatch", origin)
    IN  IF function = "noop"
        THEN [m |-> m1, ok |-> TRUE, msg |-> ""]
        ELSE IF origin = None
        THEN [m |-> m1, ok |-> FALSE, msg |-> "bad origin: expected to be a signed origin"]
        ELSE IF m.chain.balance[origin] < TransferValue
        THEN [m |-> m1, ok |-> FALSE, msg |-> "balance too low to send value"]
        ELSE [m |-> [m1 EXCEPT !.chain.balance[origin] = @ - TransferValue,
                               !.chain.balance[OtherAccount(origin)] = @ + TransferValue],
              ok |-> TRUE, msg |-> ""]

\* OnFinalise::on_finalise(block_number)
on_finalise(m, n) == Ev(m, "on_finalise", n)

\* --------------------------------------------------------------- executive
\* internal::ApplyOutcome / internal::ApplyError, carried in a Result.
Ok(tag, msg) == [ok |-> TRUE, tag |-> tag, msg |-> msg]
Err(tag, msg) == [ok |-> FALSE, tag |-> tag, msg |-> msg]

initialise_block(m, header) ==
    system_initialise(m, header.number, header.parent_hash, header.extrinsics_root)

\* ParentCheck with the number test off by one: block 1 is turned away.
ParentCheck_AboveOne(m, header) ==
    LET n == header.number
        m1 == IF n > 0 THEN Ev(m, "block_hash", n - 1) ELSE m
    IN  IF ~(n > 1 /\ block_hash(m, n - 1) = header.parent_hash)
        THEN Panic(m1, "Parent hash should be valid.")
        ELSE m1

\* ParentCheck with >= for >: block 0 is let through when the hash agrees.
ParentCheck_AllowZero(m, header) ==
    LET n == header.number
        m1 == IF n > 0 THEN Ev(m, "block_hash", n - 1) ELSE m
    IN  IF ~(n >= 0 /\ block_hash(m, n - 1) = header.parent_hash)
        THEN Panic(m1, "Parent hash should be valid.")
        ELSE m1

\* lines 104-108
ParentCheck(m, header) ==
    LET n == header.number
        m1 == IF n > 0 THEN Ev(m, "block_hash", n - 1) ELSE m
    IN  IF ~(n > 0 /\ block_hash(m, n - 1) = header.parent_hash)
        THEN Panic(m1, "Parent hash should be valid.")
        ELSE m1

\* RootCheck that computes the root and asserts nothing.
RootCheck_Unasserted(m, b) == Ev(m, "extrinsics_root", Len(b.extrinsics))

\* lines 111-113
RootCheck(m, b) ==
    LET xts_root == extrinsics_root(b.extrinsics)
        m1 == Ev(m, "extrinsics_root", Len(b.extrinsics))
    IN  IF b.header.extrinsics_root # xts_root
        THEN Panic(m1, "Transaction trie root must be valid.")
        ELSE m1

initial_checks(m, b) ==
    LET m1 == ParentCheck(m, b.header)
    IN  IF m1.panic # "" THEN m1 ELSE RootCheck(m1, b)

\* CheckSignature that drops the error of check_with.
CheckSignature_Unchecked(m, uxt) ==
    [m |-> Ev(m, "check_with", uxt.signed), r |-> Ok("", ""), xt |-> check_with(uxt).xt]

\* line 178: check_with(Lookup::lookup).map_err(BadSignature)
CheckSignature(m, uxt) ==
    LET checked == check_with(uxt)
    IN  [m |-> Ev(m, "check_with", uxt.signed),
         r |-> IF checked.ok THEN Ok("", "") ELSE Err("BadSignature", checked.msg),
         xt |-> checked.xt]

\* CheckIndex with the comparison the wrong way round.
CheckIndex_Swapped(index, expected_index) ==
    IF index # expected_index
    THEN IF index > expected_index THEN Err("Stale", "") ELSE Err("Future", "")
    ELSE Ok("", "")

\* CheckIndex that turns away only an index ahead of the nonce.
CheckIndex_AcceptsStale(index, expected_index) ==
    IF index > expected_index THEN Err("Future", "") ELSE Ok("", "")

\* lines 183-185: the declared index against the stored nonce
CheckIndex(index, expected_index) ==
    IF index # expected_index
    THEN IF index < expected_index THEN Err("Stale", "") ELSE Err("Future", "")
    ELSE Ok("", "")

\* PayAndIncrement with the nonce incremented before the fee is paid.
PayAndIncrement_IncFirst(m, sender, encoded_len) ==
    LET paid == make_payment(inc_account_nonce(m, sender), sender, encoded_len)
    IN  IF ~paid.ok THEN [m |-> paid.m, r |-> Err("CantPay", "")]
        ELSE [m |-> paid.m, r |-> Ok("", "")]

\* lines 187-193: pay the fee, then increment the nonce
PayAndIncrement(m, sender, encoded_len) ==
    LET paid == make_payment(m, sender, encoded_len)
    IN  IF ~paid.ok THEN [m |-> paid.m, r |-> Err("CantPay", "")]
        ELSE [m |-> inc_account_nonce(paid.m, sender), r |-> Ok("", "")]

\* lines 180-194: the sender's part; skipped when there is no sender
CheckSender(m, xt, encoded_len) ==
    IF xt.sender # None
    THEN LET expected_index == account_nonce(m, xt.sender)
             m1 == Ev(m, "account_nonce", xt.sender)
             c == CheckIndex(xt.index, expected_index)
         IN  IF ~c.ok THEN [m |-> m1, r |-> c]
             ELSE PayAndIncrement(m1, xt.sender, encoded_len)
    ELSE [m |-> m, r |-> Ok("", "")]

\* DispatchAndNote that records only a successful dispatch.
DispatchAndNote_SuccessOnly(m, xt) ==
    LET d == dispatch(m, xt.function, xt.sender)
        m1 == IF d.ok THEN note_applied_extrinsic(d.m, d) ELSE d.m
    IN  [m |-> m1, r |-> IF d.ok THEN Ok("Success", "") ELSE Ok("Fail", d.msg)]

\* DispatchAndNote that dispatches and records only for a signed extrinsic.
DispatchAndNote_SignedOnly(m, xt) ==
    IF xt.sender = None THEN [m |-> m, r |-> Ok("Success", "")]
    ELSE LET d == dispatch(m, xt.function, xt.sender)
             m1 == note_applied_extrinsic(d.m, d)
         IN  [m |-> m1, r |-> IF d.ok THEN Ok("Success", "") ELSE Ok("Fail", d.msg)]

\* lines 196-201: dispatch, record the result, map it to the outcome
DispatchAndNote(m, xt) ==
    LET d == dispatch(m, xt.function, xt.sender)
        m1 == note_applied_extrinsic(d.m, d)
    IN  [m |-> m1, r |-> IF d.ok THEN Ok("Success", "") ELSE Ok("Fail", d.msg)]

\* apply_extrinsic_no_note_with_len that records a refused extrinsic in the
\* applied-extrinsic log as a failed one.
apply_extrinsic_no_note_with_len_NotesRefused(m, uxt, encoded_len) ==
    LET s == CheckSignature(m, uxt)
    IN  IF ~s.r.ok THEN [m |-> note_applied_extrinsic(s.m, s.r), r |-> s.r]
        ELSE LET a == CheckSender(s.m, s.xt, encoded_len)
             IN  IF ~a.r.ok THEN [m |-> note_applied_extrinsic(a.m, a.r), r |-> a.r]
                 ELSE DispatchAndNote(a.m, s.xt)

\* apply_extrinsic_no_note_with_len that dispatches the call before it deals
\* with the sender.
apply_extrinsic_no_note_with_len_DispatchFirst(m, uxt, encoded_len) ==
    LET s == CheckSignature(m, uxt)
    IN  IF ~s.r.ok THEN [m |-> s.m, r |-> s.r]
        ELSE LET d == DispatchAndNote(s.m, s.xt)
                 a == CheckSender(d.m, s.xt, encoded_len)
             IN  IF ~a.r.ok THEN a ELSE [m |-> a.m, r |-> d.r]

\* Returns the machine and the Result<internal::ApplyOutcome, internal::ApplyError>.
apply_extrinsic_no_note_with_len(m, uxt, encoded_len) ==
    LET s == CheckSignature(m, uxt)
    IN  IF ~s.r.ok THEN [m |-> s.m, r |-> s.r]
        ELSE LET a == CheckSender(s.m, s.xt, encoded_len)
             IN  IF ~a.r.ok THEN a ELSE DispatchAndNote(a.m, s.xt)

\* lines 154-159: internal to public; the detail messages are dropped
PublicResult(r) == [ok |-> r.ok, tag |-> r.tag]

\* Escalate that lets a wrong nonce pass.
Escalate_NoncePasses(m, r) ==
    IF r.ok
    THEN IF r.tag = "Fail" THEN Ev(m, "print", Len(r.msg)) ELSE m
    ELSE IF r.tag = "CantPay"
         THEN Panic(m, "All extrinsics should have sender able to pay their fees")
    ELSE IF r.tag = "BadSignature"
         THEN Panic(m, "All extrinsics should be properly signed")
    ELSE m

\* lines 167-171: inside execute_block an ApplyError panics, a Fail is printed
Escalate(m, r) ==
    IF r.ok
    THEN IF r.tag = "Fail" THEN Ev(m, "print", Len(r.msg)) ELSE m
    ELSE IF r.tag = "CantPay"
         THEN Panic(m, "All extrinsics should have sender able to pay their fees")
    ELSE IF r.tag = "BadSignature"
         THEN Panic(m, "All extrinsics should be properly signed")
    ELSE Panic(m, "All extrinsics should have the correct nonce")

\* apply_extrinsic that notes the extrinsic after applying it, and only when
\* it was admitted.
apply_extrinsic_NoteAdmitted(m, uxt) ==
    LET encoded == Encode(uxt)
        encoded_len == Len(encoded)
        a == apply_extrinsic_no_note_with_len(m, uxt, encoded_len)
        m1 == IF a.r.ok THEN note_extrinsic(a.m, encoded) ELSE a.m
    IN  [m |-> m1, r |-> PublicResult(a.r)]

apply_extrinsic(m, uxt) ==
    LET encoded == Encode(uxt)
        encoded_len == Len(encoded)
        m1 == note_extrinsic(m, encoded)
        a == apply_extrinsic_no_note_with_len(m1, uxt, encoded_len)
    IN  [m |-> a.m, r |-> PublicResult(a.r)]

apply_extrinsic_no_note(m, uxt) ==
    LET l == Len(Encode(uxt))
        a == apply_extrinsic_no_note_with_len(m, uxt, l)
    IN  Escalate(a.m, a.r)

\* final_checks without the digest assertion.
final_checks_NoDigest(m, header) ==
    LET m1 == Ev(m, "digest", Len(digest(m)))
        m2 == system_finalise(m1)
        root == storage_root(m2)
        m3 == Ev(m2, "storage_root", m2.chain.number)
    IN  IF header.state_root # root
        THEN Panic(m3, "Storage root must match that calculated.")
        ELSE m3

\* final_checks that removes the temporaries before it checks the digest.
final_checks_FinaliseFirst(m, header) ==
    LET m1 == system_finalise(m)
        m2 == Ev(m1, "digest", Len(digest(m)))
    IN  IF header.digest # digest(m)
        THEN Panic(m2, "assertion failed: header.digest() == digest()")
        ELSE LET root == storage_root(m1)
                 m3 == Ev(m2, "storage_root", m2.chain.number)
             IN  IF header.state_root # root
                 THEN Panic(m3, "Storage root must match that calculated.")
                 ELSE m3

\* lines 204-215
final_checks(m, header) ==
    LET m1 == Ev(m, "digest", Len(digest(m)))
    IN  IF header.digest # digest(m)
        THEN Panic(m1, "assertion failed: header.digest() == digest()")
        ELSE LET m2 == system_finalise(m1)
                 root == storage_root(m2)
                 m3 == Ev(m2, "storage_root", m2.chain.number)
             IN  IF header.state_root # root
                 THEN Panic(m3, "Storage root must match that calculated.")
                 ELSE m3

\* finalise_block that derives the extrinsics root before it closes the
\* sequence and runs the hook.
finalise_block_DeriveFirst(m) ==
    LET m1 == derive_extrinsics(m)
        m2 == note_finished_extrinsics(m1)
        m3 == on_finalise(m2, block_number(m2))
    IN  [m |-> system_finalise(m3), header |-> FinalisedHeader(m3)]

\* finalise_block: returns the machine and the header.
finalise_block(m) ==
    LET m1 == note_finished_extrinsics(m)
        m2 == on_finalise(m1, block_number(m1))
        m3 == derive_extrinsics(m2)
    IN  [m |-> system_finalise(m3), header |-> FinalisedHeader(m3)]

\* execute_block, one part at a time; each part runs only on a machine that
\* has not panicked.
\* execute_block_begin that checks the block before it initialises the storage.
execute_block_begin_ChecksFirst(m, b) ==
    LET m1 == initial_checks(m, b)
    IN  IF m1.panic # "" THEN m1 ELSE initialise_block(m1, b.header)

\* lines 118-121
execute_block_begin(m, b) == initial_checks(initialise_block(m, b.header), b)

\* execute_block_apply that takes the extrinsics last to first.
RECURSIVE execute_block_apply_Reversed(_, _, _)
execute_block_apply_Reversed(m, xts, i) ==
    IF m.panic # "" \/ i > Len(xts) THEN m
    ELSE execute_block_apply_Reversed(apply_extrinsic_no_note(m, xts[Len(xts) + 1 - i]), xts, i + 1)

\* line 125, the extrinsics from position i on
RECURSIVE execute_block_apply(_, _, _)
execute_block_apply(m, xts, i) ==
    IF m.panic # "" \/ i > Len(xts) THEN m
    ELSE execute_block_apply(apply_extrinsic_no_note(m, xts[i]), xts, i + 1)

\* execute_block_end with the hook called after the final checks.
execute_block_end_HookLast(m, header) ==
    LET m1 == final_checks(note_finished_extrinsics(m), header)
    IN  IF m1.panic # "" THEN m1 ELSE on_finalise(m1, header.number)

\* lines 128-132
execute_block_end(m, header) ==
    final_checks(on_finalise(note_finished_extrinsics(m), header.number), header)

execute_block(m, b) ==
    LET m1 == execute_block_begin(m, b)
        m2 == execute_block_apply(m1, b.extrinsics, 1)
    IN  IF m2.panic # "" THEN m2 ELSE execute_block_end(m2, b.header)

\* ------------------------------------------------------------------ inputs
\* The extrinsics a caller may hand in: signed by either account with any
\* index, signed from the unresolvable address, or unsigned.
Pool ==
    [signed : Accounts, index : 0..MaxIndex, function : Functions]
      \cup [signed : {UnknownAddress}, index : {0}, function : {"noop"}]
      \cup [signed : {None}, index : {0}, function : Functions]

BlockLengths == 0..2
ExtrinsicSeqs == UNION {[1..n -> Pool] : n \in BlockLengths}

Header(n, p, xr, sr, d) ==
    [number |-> n, parent_hash |-> p, extrinsics_root |-> xr, state_root |-> sr, digest |-> d]

NoHeader == Header(0, ZeroHash, <<>>, GenesisChain([a \in Accounts |-> 0]), <<>>)
NoBlock == [header |-> NoHeader, extrinsics |-> <<>>]
NoExtrinsic == [signed |-> None, index |-> 0, function |-> "noop"]

\* The blocks offered to execute_block on storage c.  For every number,
\* parent hash and extrinsic sequence: the block a producer would build (its
\* extrinsics root, digest and state root are the ones execution computes),
\* and, when that block passes the initial checks, the same block with its
\* extrinsics root changed, and when its extrinsics are all admitted, the
\* same block with its digest or its state root changed.
WrongRoot(xts) ==
    IF xts = <<>> THEN <<Encode(NoExtrinsic)>> ELSE extrinsics_root(SubSeq(xts, 1, Len(xts) - 1))

WrongDigest(d) ==
    IF d = <<>> THEN <<"ExtrinsicSuccess">> ELSE SubSeq(d, 1, Len(d) - 1)

WrongStateRoot(c, sr) == IF sr = c THEN NoHeader.state_root ELSE c

\* Whether a block numbered n with parent hash p gets past the parent check
\* on storage c.
LinkOk(c, n, p) ==
    LET h == Header(n, p, <<>>, c, <<>>)
    IN  ParentCheck(initialise_block(Machine(c), h), h).panic = ""

\* Whether the first extrinsic of xts is admitted in a block numbered n
\* with parent hash p on storage c.
FirstAdmitted(c, n, p, xts) ==
    apply_extrinsic_no_note(initialise_block(Machine(c), Header(n, p, <<>>, c, <<>>)), xts[1]).panic = ""

\* The initial checks never look inside an extrinsic, and a block whose
\* first extrinsic is refused never gets to its second.  The blocks turned
\* away at these points are offered with no extrinsic, with one, or with
\* the same one twice; the others with every sequence.
Plain(xts) == Len(xts) <= 1 \/ xts[1] = xts[2]

BlockInputs(c) ==
    {t \in (BlockNumbers) \X Hashes \X ExtrinsicSeqs :
        Plain(t[3]) \/ (LinkOk(c, t[1], t[2]) /\ FirstAdmitted(c, t[1], t[2], t[3]))}

BlocksFor(c) ==
    UNION {
        LET xr == extrinsics_root(xts)
            b0 == [header |-> Header(n, p, xr, c, <<>>), extrinsics |-> xts]
            m0 == execute_block_begin(Machine(c), b0)
            m1 == execute_block_apply(m0, xts, 1)
            m  == on_finalise(note_finished_extrinsics(m1), n)
            d  == digest(m)
            sr == storage_root(system_finalise(m))
        IN  {[header |-> Header(n, p, xr, sr, d), extrinsics |-> xts]}
              \cup (IF m0.panic = "" /\ Plain(xts)
                    THEN {[header |-> Header(n, p, WrongRoot(xts), sr, d), extrinsics |-> xts]}
                    ELSE {})
              \cup (IF m1.panic = "" THEN {[header |-> Header(n, p, xr, WrongStateRoot(c, sr), d), extrinsics |-> xts],
                                           [header |-> Header(n, p, xr, sr, WrongDigest(d)), extrinsics |-> xts]}
                    ELSE {})
        : <<n, p, xts>> \in BlockInputs(c)}

StandaloneHeaders ==
    {Header(n, p, <<>>, NoHeader.state_root, <<>>) : <<n, p>> \in (BlockNumbers) \X Hashes}

\* ----------------------------------------------------------- behaviours
Here == [chain |-> chain, trace |-> trace, panic |-> ""]

\* Number of calls of op with argument arg in the part of t after position k.
Count(t, k, op, arg) == Cardinality({i \in (k + 1)..Len(t) : t[i].op = op /\ t[i].arg = arg})

\* The ledger after the calls recorded in t after position k.
Booked(t, k) ==
    [debits   |-> [a \in Accounts |-> ledger.debits[a] + Count(t, k, "debit", a)],
     incs     |-> [a \in Accounts |-> ledger.incs[a] + Count(t, k, "inc_account_nonce", a)],
     admitted |-> ledger.admitted]

\* The extrinsics with a sender: signed from an address that resolves.
Resolvable == {x \in Pool : x.signed # None /\ Lookup(x.signed).ok}

\* The ledger l after the apply routine returned r for uxt: an extrinsic
\* with a sender that came back Ok (Success or Fail) was admitted.
Admit(l, uxt, r) ==
    IF r.ok /\ uxt \in Resolvable THEN [l EXCEPT !.admitted = Append(@, uxt)] ELSE l

NoResult == [kind |-> "none", ok |-> TRUE, tag |-> "", msg |-> ""]
Returned(r) == [kind |-> "value", ok |-> r.ok, tag |-> r.tag, msg |-> ""]
Panicked(msg) == [kind |-> "panic", ok |-> FALSE, tag |-> "", msg |-> msg]

Init ==
    /\ chain = GenesisChain([a \in Accounts |-> IF a = 1 THEN InitialBalance ELSE 0])
    /\ trace = <<>>
    /\ pc = "idle"
    /\ block = NoBlock
    /\ next = 1
    /\ call = [op |-> "none", uxt |-> NoExtrinsic]
    /\ pre = chain
    /\ result = NoResult
    /\ entry = chain
    /\ mark = 0
    /\ ledger = [debits   |-> [a \in Accounts |-> 0],
                 incs     |-> [a \in Accounts |-> 0],
                 admitted |-> <<>>]
    /\ calls = 0
    /\ recordsParent \in BOOLEAN

\* An entry point is called on an idle executive.
CanEnter == pc = "idle" /\ calls < MaxCalls

Enter(op, uxt) ==
    /\ calls' = calls + 1
    /\ call' = [op |-> op, uxt |-> uxt]
    /\ pre' = chain
    /\ entry' = chain
    /\ mark' = 0
    /\ UNCHANGED recordsParent

InitialiseBlock ==
    /\ CanEnter
    /\ \E header \in StandaloneHeaders :
        LET m == initialise_block(Machine(chain), header)
        IN  /\ Enter("initialise_block", NoExtrinsic)
            /\ chain' = m.chain
            /\ trace' = m.trace
            /\ result' = Returned(Ok("", ""))
            /\ pc' = "returned"
            /\ block' = [header |-> header, extrinsics |-> <<>>]
            /\ UNCHANGED <<next, ledger>>

ApplyExtrinsic ==
    /\ CanEnter
    /\ \E uxt \in Pool :
        LET a == apply_extrinsic(Machine(chain), uxt)
        IN  /\ Enter("apply_extrinsic", uxt)
            /\ chain' = a.m.chain
            /\ trace' = a.m.trace
            /\ ledger' = Admit(Booked(a.m.trace, 0), uxt, a.r)
            /\ result' = Returned(a.r)
            /\ pc' = "returned"
            /\ UNCHANGED <<block, next>>

FinaliseBlock ==
    /\ CanEnter
    /\ LET f == finalise_block(Machine(chain))
       IN  /\ Enter("finalise_block", NoExtrinsic)
           /\ chain' = f.m.chain
           /\ trace' = f.m.trace
           /\ result' = Returned(Ok("", ""))
           /\ pc' = "returned"
           /\ block' = [header |-> f.header, extrinsics |-> <<>>]
           /\ UNCHANGED <<next, ledger>>

\* execute_block, lines 118-124: initialise_block and initial_checks.
ExecuteBlock ==
    /\ CanEnter
    /\ \E b \in BlocksFor(chain) :
        LET m == execute_block_begin(Machine(chain), b)
        IN  /\ Enter("execute_block", NoExtrinsic)
            /\ chain' = m.chain
            /\ trace' = m.trace
            /\ block' = b
            /\ next' = 1
            /\ IF m.panic # ""
               THEN pc' = "rejected" /\ result' = Panicked(m.panic)
               ELSE pc' = "apply" /\ result' = NoResult
            /\ UNCHANGED ledger

\* execute_block, line 125: the next extrinsic through apply_extrinsic_no_note.
\* result keeps what apply_extrinsic_no_note_with_len returned to it.
ExecuteBlockApply ==
    /\ pc = "apply"
    /\ next <= Len(block.extrinsics)
    /\ LET uxt == block.extrinsics[next]
           m == apply_extrinsic_no_note(Here, uxt)
           a == apply_extrinsic_no_note_with_len(Here, uxt, Len(Encode(uxt)))
       IN  /\ chain' = m.chain
           /\ trace' = m.trace
           /\ ledger' = Admit(Booked(m.trace, Len(trace)), uxt, a.r)
           /\ call' = [op |-> "apply_extrinsic_no_note", uxt |-> uxt]
           /\ pre' = chain
           /\ mark' = Len(trace)
           /\ next' = next + 1
           /\ IF m.panic # ""
              THEN pc' = "rejected" /\ result' = [Panicked(m.panic) EXCEPT !.tag = a.r.tag]
              ELSE pc' = "apply" /\ result' = Returned(a.r)
    /\ UNCHANGED <<block, entry, calls, recordsParent>>

\* execute_block, lines 128-132: the book-keeping, the hook, final_checks.
ExecuteBlockEnd ==
    /\ pc = "apply"
    /\ next > Len(block.extrinsics)
    /\ LET m == execute_block_end(Here, block.header)
       IN  /\ chain' = m.chain
           /\ trace' = m.trace
           /\ call' = [op |-> "execute_block_end", uxt |-> NoExtrinsic]
           /\ pre' = chain
           /\ mark' = Len(trace)
           /\ IF m.panic # ""
              THEN pc' = "rejected" /\ result' = Panicked(m.panic)
              ELSE pc' = "returned" /\ result' = Returned(Ok("", ""))
    /\ UNCHANGED <<block, next, entry, ledger, calls, recordsParent>>

\* The caller takes the result; the executive is idle again.
Return ==
    /\ pc = "returned"
    /\ pc' = "idle"
    /\ trace' = <<>>
    /\ block' = NoBlock
    /\ next' = 1
    /\ call' = [op |-> "none", uxt |-> NoExtrinsic]
    /\ pre' = chain
    /\ entry' = chain
    /\ result' = NoResult
    /\ mark' = 0
    /\ UNCHANGED <<chain, ledger, calls, recordsParent>>

Next ==
    \/ InitialiseBlock
    \/ ApplyExtrinsic
    \/ FinaliseBlock
    \/ ExecuteBlock
    \/ ExecuteBlockApply
    \/ ExecuteBlockEnd
    \/ Return

Spec == Init /\ [][Next]_vars

\* ------------------------------------------------------------ properties
\* The state right after one extrinsic went through the apply routine:
\* call.uxt is the extrinsic, pre the storage before it, result what the
\* routine returned, trace after mark the collaborator calls it made.
Standalone == call.op = "apply_extrinsic"
InBlock == call.op = "apply_extrinsic_no_note"
AppliedStep == Standalone \/ InBlock

StepOps == {trace[i].op : i \in (mark + 1)..Len(trace)}
StepCount(op, arg) == Count(trace, mark, op, arg)

Signer == call.uxt.signed
HasSender == Signer # None /\ Lookup(Signer).ok
SenderOf == Lookup(Signer).v
FeeOf == TransactionFee(Len(Encode(call.uxt)))

Untouched ==
    /\ chain.nonce = pre.nonce
    /\ chain.balance = pre.balance
    /\ "dispatch" \notin StepOps

\* An ApplyError with this name came back: as an Err value from the
\* standalone entry point, as the panic that rejects the block inside
\* execute_block.
Yields(tag) ==
    /\ ~result.ok
    /\ result.tag = tag
    /\ Standalone => result.kind = "value" /\ pc = "returned"
    /\ InBlock => result.kind = "panic" /\ pc = "rejected"

\* C1: a signed extrinsic whose index is below the sender's stored nonce
\* yields Stale, one whose index is above it yields Future; either way no
\* nonce and no balance has changed and the call was not dispatched.
C1_StaleFuture ==
    (AppliedStep /\ HasSender) =>
        /\ call.uxt.index < pre.nonce[SenderOf] => Yields("Stale") /\ Untouched
        /\ call.uxt.index > pre.nonce[SenderOf] => Yields("Future") /\ Untouched

C1_Witness ==
    /\ Standalone /\ HasSender
    /\ call.uxt.index < pre.nonce[SenderOf]
    /\ result.tag = "Stale"

\* C2: a correctly-nonced sender who cannot pay yields CantPay and keeps
\* the nonce; in every apply, and over the whole run, an account's fee
\* debits and nonce increments come in pairs.
C2_CantPayAtomic ==
    /\ (AppliedStep /\ HasSender /\ call.uxt.index = pre.nonce[SenderOf]
            /\ pre.balance[SenderOf] < FeeOf)
        => Yields("CantPay") /\ chain.nonce = pre.nonce
    /\ AppliedStep =>
        \A a \in Accounts :
            /\ StepCount("debit", a) = StepCount("inc_account_nonce", a)
            /\ StepCount("debit", a) = chain.nonce[a] - pre.nonce[a]
            /\ StepCount("debit", a) <= 1
    /\ \A a \in Accounts : ledger.debits[a] = ledger.incs[a] /\ ledger.incs[a] = chain.nonce[a]

C2_Witness ==
    /\ AppliedStep /\ HasSender
    /\ call.uxt.index = pre.nonce[SenderOf]
    /\ pre.balance[SenderOf] < FeeOf
    /\ result.tag = "CantPay"

\* C3: an extrinsic whose address the resolver rejects yields BadSignature;
\* no nonce was read or changed, no fee debited, nothing dispatched and no
\* outcome recorded.
C3_BadSignature ==
    (AppliedStep /\ Signer # None /\ ~Lookup(Signer).ok) =>
        /\ Yields("BadSignature")
        /\ StepOps \cap {"account_nonce", "make_payment", "debit", "inc_account_nonce",
                          "dispatch", "note_applied_extrinsic"} = {}
        /\ chain.nonce = pre.nonce
        /\ chain.balance = pre.balance
        /\ chain.applied = pre.applied
        /\ chain.extrinsicIndex = pre.extrinsicIndex

C3_Witness ==
    /\ InBlock /\ Signer # None /\ ~Lookup(Signer).ok
    /\ result.tag = "BadSignature"
    /\ next = 3

\* A signed extrinsic with the right index and a payable fee whose transfer
\* the sender cannot afford once the fee is gone.
FailCase ==
    /\ AppliedStep /\ HasSender
    /\ call.uxt.index = pre.nonce[SenderOf]
    /\ pre.balance[SenderOf] >= FeeOf
    /\ call.uxt.function = "transfer"
    /\ pre.balance[SenderOf] - FeeOf < TransferValue

\* C4: a signed, correctly-nonced, paid-for extrinsic whose call fails
\* returns Ok(Fail): fee debited, nonce up by one, the failure appended to
\* the applied-extrinsic log, and inside execute_block the block goes on.
\* Every dispatch result, success or failure, is appended to that log.
C4_FailIsOutcome ==
    /\ FailCase =>
        /\ result = [kind |-> "value", ok |-> TRUE, tag |-> "Fail", msg |-> ""]
        /\ StepCount("debit", SenderOf) = 1
        /\ chain.balance = [pre.balance EXCEPT ![SenderOf] = @ - FeeOf]
        /\ chain.nonce = [pre.nonce EXCEPT ![SenderOf] = @ + 1]
        /\ chain.applied = Append(pre.applied, "ExtrinsicFailed")
        /\ InBlock => pc = "apply"
    /\ (AppliedStep /\ "dispatch" \in StepOps) =>
        /\ result.ok
        /\ result.tag \in {"Success", "Fail"}
        /\ chain.applied = Append(pre.applied, IF result.tag = "Success"
                                               THEN "ExtrinsicSuccess" ELSE "ExtrinsicFailed")
    /\ (AppliedStep /\ result.ok) => "dispatch" \in StepOps

C4_Witness ==
    /\ FailCase /\ InBlock
    /\ result.tag = "Fail"
    /\ pc = "apply"

\* The apply-level error the extrinsic of the step calls for, "" if none.
ExpectedError ==
    IF Signer = None THEN ""
    ELSE IF ~Lookup(Signer).ok THEN "BadSignature"
    ELSE IF call.uxt.index < pre.nonce[SenderOf] THEN "Stale"
    ELSE IF call.uxt.index > pre.nonce[SenderOf] THEN "Future"
    ELSE IF pre.balance[SenderOf] < FeeOf THEN "CantPay"
    ELSE ""

\* C5: the standalone entry point always returns: an apply-level error
\* comes back as Err with the same name.  Inside execute_block the same
\* error rejects the block, and the extrinsics after the failing one are
\* never put through the routine.
C5_Escalation ==
    /\ Standalone =>
        /\ result.kind = "value" /\ pc = "returned"
        /\ ExpectedError # "" => ~result.ok /\ result.tag = ExpectedError
        /\ ExpectedError = "" => result.ok
    /\ InBlock =>
        /\ ExpectedError # "" <=> pc = "rejected"
        /\ ExpectedError # "" =>
            /\ result.kind = "panic" /\ result.tag = ExpectedError
            /\ block.extrinsics[next - 1] = call.uxt
            /\ Count(trace, 0, "check_with", Signer)
                  = Cardinality({i \in 1..(next - 1) : block.extrinsics[i].signed = Signer})
            /\ \A i \in next..Len(block.extrinsics) :
                  Count(trace, 0, "check_with", block.extrinsics[i].signed)
                    = Cardinality({j \in 1..(next - 1) : block.extrinsics[j].signed = block.extrinsics[i].signed})

C5_Witness ==
    /\ InBlock /\ pc = "rejected"
    /\ result.tag = "CantPay"
    /\ next = 2 /\ Len(block.extrinsics) = 2

\* The states of an execute_block run: block is its block, entry the
\* storage when it was called.
InExecute == call.op \in {"execute_block", "apply_extrinsic_no_note", "execute_block_end"}
Rejected == InExecute /\ pc = "rejected"
Completed == call.op = "execute_block_end" /\ pc = "returned"

\* Positions in the trace of the calls of op.
At(op) == {i \in 1..Len(trace) : trace[i].op = op}
ApplyOps == {"check_with", "account_nonce", "make_payment", "debit", "inc_account_nonce",
             "dispatch", "note_applied_extrinsic"}
NothingApplied ==
    /\ \A op \in ApplyOps : At(op) = {}
    /\ chain.nonce = entry.nonce
    /\ chain.balance = entry.balance
    /\ chain.applied = <<>>
    /\ next = 1

\* The commitments of the header against the values execution computes.
\* blockHash is not written after initialise_block, so chain.blockHash is
\* what initial_checks read; the digest is read before system::finalise
\* and the storage root after it, in the last step.
ParentMatches ==
    /\ block.header.number > 0
    /\ chain.blockHash[block.header.number - 1] = block.header.parent_hash
RootMatches == block.header.extrinsics_root = extrinsics_root(block.extrinsics)
DigestMatches == block.header.digest = pre.applied
StateRootMatches == block.header.state_root = chain

\* C6: a block whose parent hash, extrinsics root, digest and state root
\* match and whose extrinsics are all admitted is never rejected: every
\* rejection has one of these causes.  After execute_block has completed
\* the stored block number is the header's.
C6_ValidBlockAccepted ==
    /\ Rejected =>
        \/ call.op = "execute_block" /\ (~ParentMatches \/ ~RootMatches)
        \/ InBlock /\ ExpectedError # ""
        \/ call.op = "execute_block_end" /\ (~DigestMatches \/ ~StateRootMatches)
    /\ Completed => chain.number = block.header.number

C6_Witness ==
    /\ Completed
    /\ Len(block.extrinsics) = 2
    /\ chain.number = 1 /\ entry.number = 0

\* The block b with its extrinsics root, its digest or its state root
\* changed to another value.
Tampered(b) ==
    ({[b EXCEPT !.header.extrinsics_root = r] :
        r \in {<<>>, <<Encode(NoExtrinsic)>>, WrongRoot(b.extrinsics)}}
     \cup {[b EXCEPT !.header.digest = d] :
        d \in {<<>>, <<"ExtrinsicSuccess">>, <<"ExtrinsicFailed">>, WrongDigest(b.header.digest)}}
     \cup {[b EXCEPT !.header.state_root = r] :
        r \in {entry, pre, NoHeader.state_root}})
    \ {b}

\* C7: execute_block completes only if the declared extrinsics root, digest
\* and state root each equal the computed one, and a block past the initial
\* checks has the computed extrinsics root; an accepted block with one of
\* the three changed is rejected when executed on the same storage.
C7_CommitmentsChecked ==
    /\ (InExecute /\ pc # "rejected") => RootMatches
    /\ Completed =>
        /\ DigestMatches /\ StateRootMatches
        /\ execute_block(Machine(entry), block).panic = ""
        /\ \A b \in Tampered(block) : execute_block(Machine(entry), b).panic # ""

C7_Witness ==
    /\ call.op = "execute_block_end" /\ pc = "rejected"
    /\ DigestMatches /\ ~StateRootMatches
    /\ Len(block.extrinsics) = 1

\* C8: a block whose declared extrinsics root differs from the computed
\* one is rejected in the initial checks, before any extrinsic has been
\* checked, charged, dispatched or recorded.
C8_BadRootRejectedFirst ==
    (InExecute /\ ~RootMatches) =>
        /\ pc = "rejected"
        /\ call.op = "execute_block"
        /\ NothingApplied

C8_Witness ==
    /\ Rejected /\ ~RootMatches /\ ParentMatches
    /\ Len(block.extrinsics) = 2
    /\ result.msg = "Transaction trie root must be valid."

\* C9: execute_block gets past the initial checks only if the header number
\* is above 0 and the hash stored for the block before it is the header's
\* parent hash; otherwise the block is rejected before any extrinsic is
\* applied.  Number 0 is always rejected.
C9_ParentLinkage ==
    InExecute =>
        /\ pc # "rejected" => ParentMatches
        /\ ~ParentMatches =>
            /\ pc = "rejected"
            /\ call.op = "execute_block"
            /\ result.msg = "Parent hash should be valid."
            /\ NothingApplied
        /\ block.header.number = 0 => pc = "rejected"

C9_Witness ==
    /\ Rejected
    /\ block.header.number = 1
    /\ chain.blockHash[0] # block.header.parent_hash
    /\ Len(block.extrinsics) = 1

\* C10: in a run that reaches final_checks, on_finalise is called once,
\* with the header number, after every extrinsic has been applied and
\* after note_finished_extrinsics, and before final_checks reads the
\* digest; in a run rejected before that it is not called.
C10_HookOnce ==
    InExecute =>
        IF call.op = "execute_block_end"
        THEN /\ Cardinality(At("on_finalise")) = 1
             /\ At("digest") # {}
             /\ \A i \in At("on_finalise") :
                 /\ trace[i].arg = block.header.number
                 /\ \A op \in ApplyOps : \A j \in At(op) : j < i
                 /\ Cardinality(At("check_with")) = Len(block.extrinsics)
                 /\ At("note_finished_extrinsics") # {}
                 /\ \A j \in At("note_finished_extrinsics") : j < i
                 /\ \A j \in At("digest") \cup At("finalise") \cup At("storage_root") : i < j
        ELSE At("on_finalise") = {} /\ At("digest") = {}

C10_Witness ==
    /\ call.op = "execute_block_end"
    /\ Len(block.extrinsics) = 2
    /\ At("on_finalise") # {}
    /\ pc = "rejected"

\* C11: the standalone apply_extrinsic appends the encoded extrinsic to the
\* raw-extrinsic log before any check runs, so it is noted whether the call
\* returns an outcome or an ApplyError; an execute_block run never calls
\* note_extrinsic and its raw-extrinsic log stays empty.
C11_LoggingAsymmetry ==
    /\ Standalone =>
        /\ trace # <<>>
        /\ trace[1] = [op |-> "note_extrinsic", arg |-> Len(Encode(call.uxt))]
        /\ Cardinality(At("note_extrinsic")) = 1
        /\ \A op \in ApplyOps : \A j \in At(op) : j > 1
        /\ At("check_with") # {}
        /\ chain.extrinsics = Append(pre.extrinsics, Encode(call.uxt))
    /\ InExecute =>
        /\ At("note_extrinsic") = {}
        /\ chain.extrinsics = initialise_block(Machine(entry), block.header).chain.extrinsics

C11_Witness ==
    /\ Standalone
    /\ ~result.ok /\ result.tag = "Future"
    /\ Len(pre.extrinsics) = 1
    /\ chain.extrinsics = Append(pre.extrinsics, Encode(call.uxt))

\* What the apply routine was handed: the storage before the step, with the
\* raw extrinsic already noted on the standalone path.
RoutineEntry ==
    IF Standalone THEN [pre EXCEPT !.extrinsics = Append(@, Encode(call.uxt))] ELSE pre

\* C12: when the apply routine refuses an extrinsic (BadSignature, Stale,
\* Future or CantPay) it leaves the storage as it found it: extrinsic index,
\* applied-extrinsic log, every nonce and every balance are unchanged.  The
\* extrinsic index moves, by one, exactly for the extrinsics that were
\* admitted and dispatched.
C12_RefusedIsNoOp ==
    AppliedStep =>
        /\ ~result.ok =>
            /\ result.tag \in {"BadSignature", "Stale", "Future", "CantPay"}
            /\ chain.extrinsicIndex = pre.extrinsicIndex
            /\ chain.applied = pre.applied
            /\ chain.nonce = pre.nonce
            /\ chain.balance = pre.balance
            /\ chain = RoutineEntry
            /\ StepOps \cap {"debit", "inc_account_nonce", "dispatch", "note_applied_extrinsic"} = {}
        /\ result.ok =>
            /\ StepCount("dispatch", IF HasSender THEN SenderOf ELSE None) = 1
            /\ chain.extrinsicIndex = (IF pre.extrinsicIndex = NoIndex THEN 0 ELSE pre.extrinsicIndex) + 1
            /\ Len(chain.applied) = Len(pre.applied) + 1
        /\ chain.extrinsicIndex # pre.extrinsicIndex <=> result.ok

\* tests::bad_extrinsic_not_inserted: initialise_block, then a signed
\* extrinsic whose index is ahead of the nonce.
C12_Witness ==
    /\ Standalone /\ HasSender
    /\ call.uxt.index > pre.nonce[SenderOf]
    /\ ~result.ok
    /\ pre.number = 1 /\ pre.extrinsicIndex = 0
    /\ chain.extrinsicIndex = 0

\* execute_block was rejected by one of its own four assertions.
StructuralRejection == Rejected /\ call.op \in {"execute_block", "execute_block_end"}

StructuralMessages ==
    {"Parent hash should be valid.", "Transaction trie root must be valid.",
     "assertion failed: header.digest() == digest()", "Storage root must match that calculated."}

\* Number of the block's extrinsics signed by account a.
SignedBy(a) == Cardinality({i \in 1..Len(block.extrinsics) : block.extrinsics[i].signed = a})

\* C13 as claimed: after a structural rejection the storage equals the
\* storage execute_block was called on, and no recoverable value is produced.
C13_NoPartialEffect ==
    StructuralRejection => chain = entry /\ result.kind = "panic"

\* C13: a structural rejection aborts execute_block at the violated
\* assertion with a panic and no recoverable value; execute_block undoes
\* nothing, so the storage at the abort holds what the run wrote so far: the
\* initialise_block writes after a bad parent hash or extrinsics root, and
\* also every extrinsic's nonce increment, fee debit and outcome record
\* after a bad digest or state root.
C13_AbortKeepsEffects ==
    StructuralRejection =>
        /\ result.kind = "panic"
        /\ result.msg \in StructuralMessages
        /\ call.op = "execute_block" =>
            /\ chain = initialise_block(Machine(entry), block.header).chain
            /\ NothingApplied
        /\ call.op = "execute_block_end" =>
            /\ chain.number = block.header.number
            /\ \A a \in Accounts :
                /\ chain.nonce[a] = entry.nonce[a] + SignedBy(a)
                /\ Count(trace, 0, "debit", a) = SignedBy(a)
            /\ Cardinality(At("note_applied_extrinsic")) = Len(block.extrinsics)
            /\ At("finalise") # {} <=> DigestMatches

C13_Witness ==
    /\ StructuralRejection
    /\ call.op = "execute_block_end"
    /\ chain.nonce # entry.nonce
    /\ chain.balance # entry.balance
    /\ result.msg = "Storage root must match that calculated."

\* C14 as claimed: every execute_block run, once it has ended, has
\* initialised the storage exactly once and finalised it exactly once.
C14_FinalisedInEveryRun ==
    (InExecute /\ pc \in {"returned", "rejected"}) =>
        /\ Cardinality(At("initialise")) = 1
        /\ Cardinality(At("finalise")) = 1

\* C14: in an execute_block run system::initialise is the first call made
\* and is made once, before any extrinsic is processed; system::finalise is
\* made at most once, only inside final_checks: after the last extrinsic,
\* after on_finalise and the digest check, before the state root is read.
\* A run whose digest assertion passed has made it exactly once; a run
\* rejected earlier has not made it.
C14_Lifecycle ==
    InExecute =>
        /\ At("initialise") = {1}
        /\ trace[1].arg = block.header.number
        /\ Cardinality(At("finalise")) <= 1
        /\ At("finalise") # {} <=> (call.op = "execute_block_end" /\ DigestMatches)
        /\ \A i \in At("finalise") :
            /\ trace[i].arg = block.header.number
            /\ Cardinality(At("check_with")) = Len(block.extrinsics)
            /\ Cardinality(At("note_applied_extrinsic")) = Len(block.extrinsics)
            /\ \A op \in ApplyOps : \A j \in At(op) : j < i
            /\ At("on_finalise") # {} /\ \A j \in At("on_finalise") : j < i
            /\ At("digest") # {} /\ \A j \in At("digest") : j < i
            /\ At("storage_root") # {} /\ \A j \in At("storage_root") : i < j
        /\ Completed => Cardinality(At("finalise")) = 1

C14_Witness ==
    /\ Completed
    /\ Len(block.extrinsics) = 2
    /\ Cardinality(At("initialise")) = 1
    /\ Cardinality(At("finalise")) = 1
    /\ At("dispatch") # {}

Authoring == call.op = "finalise_block"

\* C15: finalise_block calls note_finished_extrinsics, then on_finalise once
\* with the stored block number, then derive_extrinsics, then
\* system::finalise, and returns the header: its extrinsics root is the one
\* derived from the logged raw extrinsics.  It reads no block hash, computes
\* no root to compare and reads no digest to compare, and it always returns.
C15_AuthoringPath ==
    Authoring =>
        /\ [i \in 1..Len(trace) |-> trace[i].op]
              = <<"note_finished_extrinsics", "on_finalise", "derive_extrinsics", "finalise">>
        /\ trace[2].arg = pre.number
        /\ trace[3].arg = Len(pre.extrinsics)
        /\ result.kind = "value" /\ result.ok
        /\ pc = "returned"
        /\ block.header.number = pre.number
        /\ block.header.extrinsics_root = pre.extrinsics
        /\ chain.nonce = pre.nonce /\ chain.balance = pre.balance

C15_Witness ==
    /\ Authoring
    /\ pc = "returned"
    /\ Len(pre.extrinsics) = 1
    /\ block.header.extrinsics_root = pre.extrinsics
    /\ Len(trace) = 4

\* Positions in the trace of the calls of op made by the step.
StepAt(op) == {i \in (mark + 1)..Len(trace) : trace[i].op = op}
Before(op1, op2) == \A i \in StepAt(op1) : \A j \in StepAt(op2) : i < j

\* The calls made by the step, in the order they were made.
StepSeq == [i \in 1..(Len(trace) - mark) |-> trace[mark + i].op]

\* What the apply of a signed extrinsic calls after check_with, by its
\* result.
SenderSteps ==
    IF result.tag \in {"Stale", "Future"} THEN <<"account_nonce">>
    ELSE IF result.tag = "CantPay" THEN <<"account_nonce", "make_payment">>
    ELSE <<"account_nonce", "make_payment", "debit", "inc_account_nonce",
           "dispatch", "note_applied_extrinsic">>

\* C17: the apply of a signed extrinsic reads the nonce, then pays the fee,
\* then increments the nonce, then dispatches, then records the outcome,
\* each once and in this order, stopping where a check fails.  When the
\* call was dispatched the fee had left the sender's balance and the stored
\* nonce was the declared index plus one.  After every step and every
\* entry-point call an account has as many fee debits as nonce increments.
C17_ApplyOrder ==
    /\ (AppliedStep /\ HasSender) =>
        /\ StepSeq = (IF Standalone THEN <<"note_extrinsic">> ELSE <<>>)
                        \o <<"check_with">> \o SenderSteps
                        \o (IF InBlock /\ result.tag = "Fail" THEN <<"print">> ELSE <<>>)
        /\ result.ok <=> "dispatch" \in StepOps
        /\ "dispatch" \in StepOps =>
            /\ \A i \in StepAt("account_nonce") \cup StepAt("make_payment")
                        \cup StepAt("debit") \cup StepAt("inc_account_nonce")
                        \cup StepAt("dispatch") : trace[i].arg = SenderOf
            /\ pre.nonce[SenderOf] = call.uxt.index
            /\ chain.nonce[SenderOf] = call.uxt.index + 1
            /\ pre.balance[SenderOf] >= FeeOf
            /\ result.tag = "Fail" => chain.balance[SenderOf] = pre.balance[SenderOf] - FeeOf
            /\ result.tag = "Success" =>
                  chain.balance[SenderOf] \in {pre.balance[SenderOf] - FeeOf,
                                               pre.balance[SenderOf] - FeeOf - TransferValue}
    /\ ledger.debits = ledger.incs

C17_Witness ==
    /\ InBlock /\ HasSender
    /\ result.tag = "Success"
    /\ call.uxt.function = "transfer"
    /\ StepAt("dispatch") # {}
    /\ chain.balance[SenderOf] = pre.balance[SenderOf] - FeeOf - TransferValue
    /\ chain.nonce[SenderOf] = call.uxt.index + 1

\* The check_with calls of the run so far, in the order they were made.
Checked == SelectSeq(trace, LAMBDA e : e.op = "check_with")

\* Number of the block's extrinsics before position i signed by address s.
EarlierBy(s, i) == Cardinality({j \in 1..(i - 1) : block.extrinsics[j].signed = s})

\* The block's first two extrinsics come from one account and declare its
\* stored nonce and the one after it.
ConsecutivePair ==
    /\ Len(block.extrinsics) = 2
    /\ block.extrinsics[1].signed \in Accounts
    /\ block.extrinsics[2].signed = block.extrinsics[1].signed
    /\ block.extrinsics[1].index = entry.nonce[block.extrinsics[1].signed]
    /\ block.extrinsics[2].index = block.extrinsics[1].index + 1

\* The block with its two extrinsics exchanged, and the extrinsics root
\* that goes with that order.
Swapped(b) ==
    LET xts == <<b.extrinsics[2], b.extrinsics[1]>>
    IN  [b EXCEPT !.extrinsics = xts, !.header.extrinsics_root = extrinsics_root(xts)]

\* C18: execute_block puts the extrinsics through the apply routine in the
\* block's order, one at a time: an extrinsic's outcome is recorded (and a
\* failure printed) before the next one is checked, and its nonce check reads the entry nonce plus
\* the increments of the sender's earlier extrinsics in the block.  Two
\* extrinsics of one sender declaring the stored nonce and the next one
\* pass the nonce check in that order (and are admitted if the fees can be
\* paid); the block with the two exchanged is rejected for its nonce.
C18_InOrder ==
    InBlock =>
        /\ block.extrinsics[next - 1] = call.uxt
        /\ Len(Checked) = next - 1
        /\ \A i \in 1..Len(Checked) : Checked[i].arg = block.extrinsics[i].signed
        /\ trace[mark + 1].op = "check_with"
        /\ trace[mark].op \in {"extrinsics_root", "note_applied_extrinsic", "print"}
        /\ Cardinality({k \in 1..mark : trace[k].op = "note_applied_extrinsic"}) = next - 2
        /\ HasSender =>
            /\ pre.nonce[SenderOf] = entry.nonce[SenderOf] + EarlierBy(Signer, next - 1)
            /\ result.tag \in {"Stale", "Future"} <=> call.uxt.index # pre.nonce[SenderOf]
        /\ (ConsecutivePair /\ next = 3) =>
            /\ result.tag \notin {"Stale", "Future"}
            /\ pre.balance[SenderOf] >= FeeOf => pc = "apply"
            /\ execute_block(Machine(entry), Swapped(block)).panic
                  = "All extrinsics should have the correct nonce"

C18_Witness ==
    /\ InBlock /\ ConsecutivePair
    /\ next = 3
    /\ pc = "apply"
    /\ chain.nonce[SenderOf] = entry.nonce[SenderOf] + 2

Unsigned == AppliedStep /\ Signer = None

\* C19: the apply of an extrinsic without a sender reads no nonce, pays no
\* fee and increments no nonce, so it is never refused as Stale, Future or
\* CantPay, however often the same extrinsic is applied; its call is
\* dispatched once, with the origin of no sender, and the dispatch result
\* is appended to the applied-extrinsic log.
C19_UnsignedBypass ==
    Unsigned =>
        /\ StepOps \cap {"account_nonce", "make_payment", "debit", "inc_account_nonce"} = {}
        /\ chain.nonce = pre.nonce
        /\ result.kind = "value" /\ result.ok
        /\ result.tag \in {"Success", "Fail"}
        /\ InBlock => pc = "apply"
        /\ Cardinality(StepAt("dispatch")) = 1
        /\ StepCount("dispatch", None) = 1
        /\ Before("check_with", "dispatch")
        /\ Before("dispatch", "note_applied_extrinsic")
        /\ Cardinality(StepAt("note_applied_extrinsic")) = 1
        /\ chain.applied = Append(pre.applied, IF result.tag = "Success"
                                               THEN "ExtrinsicSuccess" ELSE "ExtrinsicFailed")

\* The same unsigned extrinsic twice in one block, both applied.
C19_Witness ==
    /\ Unsigned /\ InBlock
    /\ next = 3
    /\ block.extrinsics[1] = block.extrinsics[2]
    /\ Len(chain.applied) = 2
    /\ pc = "apply"

\* The admissions so far of extrinsics of account a.
AdmittedOf(a) == {i \in 1..Len(ledger.admitted) : Lookup(ledger.admitted[i].signed).v = a}

\* The extrinsic of the step had been admitted before the step.
AdmittedBefore ==
    \E i \in 1..(Len(ledger.admitted) - (IF result.ok THEN 1 ELSE 0)) :
        ledger.admitted[i] = call.uxt

\* The nonces at genesis.
InitialNonce == GenesisChain([a \in Accounts |-> 0]).nonce

\* C20: over any sequence of operations a nonce never goes down: a step
\* that admits a signed extrinsic of the account (Success or Fail) raises
\* it by one, every other step and entry-point call leaves it alone.  So
\* the nonce is the initial nonce plus the number of the account's
\* admitted extrinsics, no signed extrinsic is admitted twice, and one that
\* was admitted is refused as Stale whenever it is applied again.
C20_ReplayProtection ==
    /\ \A i \in 1..Len(ledger.admitted) :
        /\ ledger.admitted[i].index < chain.nonce[Lookup(ledger.admitted[i].signed).v]
        /\ \A j \in 1..(i - 1) : ledger.admitted[j] # ledger.admitted[i]
    /\ \A a \in Accounts :
        /\ chain.nonce[a] >= pre.nonce[a]
        /\ chain.nonce[a] - pre.nonce[a]
              = IF AppliedStep /\ HasSender /\ SenderOf = a /\ result.ok THEN 1 ELSE 0
        /\ chain.nonce[a] = InitialNonce[a] + Cardinality(AdmittedOf(a))
    /\ (AppliedStep /\ HasSender /\ AdmittedBefore) =>
        /\ Yields("Stale")
        /\ chain.nonce = pre.nonce

\* An extrinsic admitted by an earlier call comes in again.
C20_Witness ==
    /\ Standalone /\ HasSender
    /\ AdmittedBefore
    /\ result.tag = "Stale"
    /\ chain.nonce[SenderOf] = 1 /\ pre.nonce[SenderOf] = 1

====
